---- MODULE Spec2Model ----
(***************************************************************************)
(* EPT-violation / EPT-misconfiguration VM-exit handling of the hypervisor *)
(* (hypervisor/src/intel/vmexit/ept.rs), as a state machine over the       *)
(* logical processors' VMCS state, the shared hook registry and the guest  *)
(* accesses that raise the exits.                                          *)
(***************************************************************************)
EXTENDS Integers, Sequences, FiniteSets, TLC

VARIABLES
    vcpu,         \* per logical processor: VMCS fields, guest state, handler position
    shared_data,  \* vm.shared_data: EPT roots, hierarchies, hook registry, cursor
    scan,         \* a call of SsdtFind::pattern_scan: arguments, position, result
    ssdt          \* a call of SsdtFind::find_ssdt: kernel image, position, result

vars == <<vcpu, shared_data, scan, ssdt>>

----------------------------------------------------------------------------
(* Bounds of the model *)

\* EPT-violation exits taken per logical processor
MaxExits == 3
\* guest instructions retired per logical processor
MaxInstr == 2
\* hooks installed in the registry before the guest runs
MaxHooks == 2

\* characters of the pattern string handed to pattern_scan
MaxPatternLen == 4
\* bytes of the data block handed to pattern_scan
MaxDataLen == 3

\* bytes of padding in front of the signature in a kernel image
MaxPad == 3
\* bytes of the kernel image behind the signature
MaxTail == 28

\* the logical processors
Cpus == {0, 1}

\* no call of the SSDT finder in progress
NoCall == [pc |-> "idle"]

----------------------------------------------------------------------------
(* Types of the source *)

\* enum EptpState { Primary, Secondary }
EptpState == {"Primary", "Secondary"}

\* vmexit::ExitType values the two handlers return
ExitType == {"Continue", "ExitHypervisor"}

\* guest physical pages the guest touches: an ordinary page, the page of
\* hook record 0, and a page that neither hierarchy maps
PlainPage == <<"plain", 0>>
HookPage(k) == <<"hook", k>>
HookedPage == HookPage(0)
UnmappedPage == <<"unmapped", 0>>
Pages == {PlainPage, HookedPage, UnmappedPage}

NoData == <<"none", 0>>

\* a guest instruction: the page it is fetched from and the page its data
\* operand lies in (NoData: no memory operand)
Instructions == [code : Pages, data : Pages \cup {NoData}]

\* the one hook record of the registry at Rust index k
HookRecord(k) ==
    [page |-> HookPage(k),
     primary_ept_pre_alloc_pt |-> <<"primary_pt", k>>,
     secondary_ept_pre_alloc_pt |-> <<"secondary_pt", k>>]

\* permissions of a page in one hierarchy, given the installed hooks:
\* a hooked page is R:true W:true X:false in Primary and
\* R:false W:false X:true in Secondary
PagePermissions(state, page, hooks) ==
    IF \E k \in 1..Len(hooks) : hooks[k].page = page
    THEN (IF state = "Primary" THEN {"R", "W"} ELSE {"X"})
    ELSE IF page = UnmappedPage THEN {}
    ELSE {"R", "W", "X"}

\* shared_data as the bring-up code leaves it with n hooks installed
SharedData(n) ==
    LET hooks == [k \in 1..n |-> HookRecord(k - 1)] IN
    [primary_eptp |-> "primary_root",
     secondary_eptp |-> "secondary_root",
     primary_ept |-> [p \in Pages |-> PagePermissions("Primary", p, hooks)],
     secondary_ept |-> [p \in Pages |-> PagePermissions("Secondary", p, hooks)],
     ept_hook_manager |-> hooks,
     current_hook_index |-> n]

----------------------------------------------------------------------------
(* Per-processor state *)

NoCache == "no_cache"

\* a logical processor as the bring-up code hands it to the guest: the EPTP
\* register programmed with one of the two roots, nothing cached, the guest
\* about to fetch instruction i; k violations were handled before (each with
\* its register write and its invalidation)
InitialVcpu(root, i, ip, k) ==
    [pc |-> "fetch",
     eptp |-> root,                    \* VMCS control field EPTP_FULL
     tlb |-> NoCache,                  \* root whose translations are cached
     rip |-> ip,                       \* guest instruction pointer
     instr |-> i,                      \* guest instruction at rip
     instruction_fetch |-> FALSE,      \* VMCS exit qualification, bit decoded
     guest_physical_address |-> PlainPage,  \* VMCS GUEST_PHYSICAL_ADDR_FULL
     result |-> "none",                \* ExitType the running handler returned
     calls |-> <<>>,                   \* switch_eptp calls the match still makes
     sp |-> 0,                         \* statement of switch_eptp to run next
     hook |-> 0,                       \* registry index the dump borrowed
     panic |-> "none",                 \* message of the panic that stopped the core
     fatal |-> FALSE,                  \* handle_ept_misconfiguration was invoked
     entry_eptp |-> "none",            \* EPTP_FULL when the exit was taken
     entry_rip |-> ip,                 \* guest rip when the exit was taken
     n_exits |-> k,                    \* EPT-violation exits taken
     n_vmwrite |-> k,                  \* writes of EPTP_FULL
     n_invept |-> k,                   \* all-contexts invalidations
     retries |-> 0,                    \* exits taken by the instruction at rip
     seen |-> {},                      \* <<root, fetch flag>> of those exits
     log |-> <<>>]                     \* what the running handler did, in order

----------------------------------------------------------------------------
(* Hardware operations the handlers call *)

\* vmwrite(vmcs::control::EPTP_FULL, value)
vmwrite(v, value) ==
    [v EXCEPT !.eptp = value,
              !.n_vmwrite = @ + 1,
              !.log = Append(@, <<"vmwrite", value>>)]

\* invept_all_contexts(): drops every cached translation; the event records
\* the EPTP value in force when the invalidation runs
invept_all_contexts(v) ==
    [v EXCEPT !.tlb = NoCache,
              !.n_invept = @ + 1,
              !.log = Append(@, <<"invept", v.eptp>>)]

----------------------------------------------------------------------------
(* handle_ept_violation and switch_eptp *)

\* mutant: the two arms of the match exchanged
ept_violation_match_swapped(instruction_fetch) ==
    IF instruction_fetch THEN <<"Primary">> ELSE <<"Secondary">>

\* the match on ept_violation_qualification.instruction_fetch: the
\* switch_eptp calls of the arm taken, in order
ept_violation_match(instruction_fetch) ==
    IF instruction_fetch THEN <<"Secondary">> ELSE <<"Primary">>

\* mutant: the address of the hierarchy's tables instead of the stored EPTP
\* value of the Secondary view
eptp_address_hierarchy(sd, state) ==
    IF state = "Primary" THEN sd.primary_eptp ELSE "secondary_ept"

\* let eptp_address = match state { ... }
eptp_address(sd, state) ==
    IF state = "Primary" THEN sd.primary_eptp ELSE sd.secondary_eptp

\* mutant: the invalidation issued before the register write
switch_eptp_body_invept_first == <<"invept_all_contexts", "vmwrite">>

\* mutant: the invalidation left out
switch_eptp_body_no_invept == <<"vmwrite">>

\* the statements of switch_eptp after eptp_address is bound, in program order
switch_eptp_body == <<"vmwrite", "invept_all_contexts">>

\* mutant: the switch flips the active view instead of selecting `state`
switch_eptp_statement_toggle(v, sd, stmt, state) ==
    IF stmt = "vmwrite"
    THEN vmwrite(v, IF v.eptp = sd.primary_eptp THEN sd.secondary_eptp
                    ELSE sd.primary_eptp)
    ELSE invept_all_contexts(v)

\* mutant: a switch to the view that is already active is skipped
switch_eptp_statement_skip_active(v, sd, stmt, state) ==
    IF v.entry_eptp = eptp_address(sd, state) THEN v
    ELSE IF stmt = "vmwrite" THEN vmwrite(v, eptp_address(sd, state))
    ELSE invept_all_contexts(v)

\* one statement of switch_eptp, run against the processor's state
switch_eptp_statement(v, sd, stmt, state) ==
    IF stmt = "vmwrite" THEN vmwrite(v, eptp_address(sd, state))
    ELSE invept_all_contexts(v)

\* mutant: the handler steps over the faulting instruction
handle_ept_violation_rip_advance(rip) == rip + 1

\* ExitType handle_ept_violation returns
handle_ept_violation_result == "Continue"

\* guest rip as handle_ept_violation leaves it ("Do not increment RIP")
handle_ept_violation_rip(rip) == rip

\* handler entry: reads GUEST_PHYSICAL_ADDR_FULL and EXIT_QUALIFICATION and
\* takes the match arm
handle_ept_violation(c) ==
    LET v == vcpu[c] IN
    /\ v.pc = "handle_ept_violation"
    /\ vcpu' = [vcpu EXCEPT ![c] =
                  [v EXCEPT !.calls = ept_violation_match(v.instruction_fetch),
                            !.pc = "match_arm"]]
    /\ UNCHANGED <<shared_data, scan, ssdt>>

\* inside the arm: the next switch_eptp call, or the end of the match
match_arm(c) ==
    LET v == vcpu[c] IN
    /\ v.pc = "match_arm"
    /\ vcpu' = [vcpu EXCEPT ![c] =
                  IF v.calls = <<>>
                  THEN [v EXCEPT !.pc = "handle_ept_violation_return"]
                  ELSE [v EXCEPT !.pc = "switch_eptp",
                                 !.sp = 1,
                                 !.log = Append(@, <<"switch_eptp", Head(v.calls)>>)]]
    /\ UNCHANGED <<shared_data, scan, ssdt>>

\* mutant: the register is one for all processors
switch_eptp_vmcs_global(c, cpus) == cpus

\* the processors whose EPTP_FULL a switch_eptp run on processor c writes:
\* vm is the trapping processor's Vm, vmwrite acts on its current VMCS
switch_eptp_vmcs(c, cpus) == {c}

\* switch_eptp(vm, state): runs its next statement; after the last one it
\* returns into the match arm
switch_eptp(c) ==
    LET v == vcpu[c]
        w == switch_eptp_statement(v, shared_data, switch_eptp_body[v.sp], Head(v.calls))
        u == IF v.sp < Len(switch_eptp_body)
             THEN [w EXCEPT !.sp = v.sp + 1]
             ELSE [w EXCEPT !.sp = 0,
                            !.calls = Tail(v.calls),
                            !.pc = "match_arm"]
    IN
    /\ v.pc = "switch_eptp"
    /\ vcpu' = [d \in DOMAIN vcpu |->
                  IF d = c THEN u
                  ELSE IF d \in switch_eptp_vmcs(c, DOMAIN vcpu)
                  THEN [vcpu[d] EXCEPT !.eptp = w.eptp]
                  ELSE vcpu[d]]
    /\ UNCHANGED <<shared_data, scan, ssdt>>

\* ExitType::Continue, rip untouched
handle_ept_violation_return(c) ==
    LET v == vcpu[c] IN
    /\ v.pc = "handle_ept_violation_return"
    /\ vcpu' = [vcpu EXCEPT ![c] =
                  [v EXCEPT !.result = handle_ept_violation_result,
                            !.rip = handle_ept_violation_rip(v.rip),
                            !.pc = "dispatch"]]
    /\ UNCHANGED <<shared_data, scan, ssdt>>

----------------------------------------------------------------------------
(* handle_ept_misconfiguration and dump_primary_and_secondary_ept *)

\* width of usize in the model (the target's usize has 64 bits)
UsizeBits == 4

UsizeModulus == 2 ^ UsizeBits

\* a - b on usize. With overflow checks (debug profile) an underflow panics;
\* without them (release profile) it wraps around
usize_sub(a, b, overflow_checks) ==
    IF a >= b THEN [panic |-> "none", value |-> a - b]
    ELSE IF overflow_checks
    THEN [panic |-> "attempt to subtract with overflow", value |-> 0]
    ELSE [panic |-> "none", value |-> (a - b) % UsizeModulus]

\* ept_hook_manager.get_mut(index): the registry is indexed from 0
get_mut(hooks, index) ==
    IF index < Len(hooks) THEN <<"Some", index>> ELSE <<"None">>

\* the lookup of dump_primary_and_secondary_ept:
\* get_mut(current_hook_index - 1).ok_or(FailedToGetCurrentHookIndex).unwrap()
current_hook_lookup(sd, overflow_checks) ==
    LET index == usize_sub(sd.current_hook_index, 1, overflow_checks)
        found == get_mut(sd.ept_hook_manager, index.value)
    IN
    IF index.panic # "none" THEN [panic |-> index.panic, hook |-> 0]
    ELSE IF found = <<"None">>
    THEN [panic |-> "FailedToGetCurrentHookIndex", hook |-> 0]
    ELSE [panic |-> "none", hook |-> found[2]]

\* mutant: the misconfiguration handler resumes the guest
handle_ept_misconfiguration_result_continue == "Continue"

\* ExitType handle_ept_misconfiguration returns
handle_ept_misconfiguration_result == "ExitHypervisor"

\* mutant: the handler programs the Primary view before it dumps
handle_ept_misconfiguration_entry_switching(v, sd) ==
    [invept_all_contexts(vmwrite(v, sd.primary_eptp)) EXCEPT !.pc = "dump_lookup"]

\* the handler up to the call of the dump: a vmread of the faulting address
\* and a trace line; the processor's VMCS controls and caches are not touched
handle_ept_misconfiguration_entry(v, sd) ==
    [v EXCEPT !.pc = "dump_lookup"]

\* handler entry: reads GUEST_PHYSICAL_ADDR_FULL and calls the dump
handle_ept_misconfiguration(c) ==
    LET v == vcpu[c] IN
    /\ v.pc = "handle_ept_misconfiguration"
    /\ vcpu' = [vcpu EXCEPT ![c] = handle_ept_misconfiguration_entry(v, shared_data)]
    /\ UNCHANGED <<shared_data, scan, ssdt>>

\* mutant: the subtraction is done in place, on the cursor itself
dump_lookup_cursor_decremented(sd) ==
    IF sd.current_hook_index > 0 THEN sd.current_hook_index - 1 ELSE 0

\* the cursor after the lookup: current_hook_index - 1 is a temporary, the
\* field is only read
dump_lookup_cursor(sd) == sd.current_hook_index

\* dump_primary_and_secondary_ept up to the unwrap: borrows the hook at
\* current_hook_index - 1 or panics; the build profile decides how an
\* underflow of the subtraction ends
dump_lookup(c) ==
    LET v == vcpu[c] IN
    /\ v.pc = "dump_lookup"
    /\ \E overflow_checks \in BOOLEAN :
         LET r == current_hook_lookup(shared_data, overflow_checks) IN
         vcpu' = [vcpu EXCEPT ![c] =
                    IF r.panic # "none"
                    THEN [v EXCEPT !.pc = "panicked", !.panic = r.panic]
                    ELSE [v EXCEPT !.pc = "dump_primary", !.hook = r.hook]]
    /\ shared_data' = [shared_data EXCEPT
                        !.current_hook_index = dump_lookup_cursor(shared_data)]
    /\ UNCHANGED <<scan, ssdt>>

\* mutant: the Secondary dump is handed the Primary fragment
dump_ept_entries_calls_same_fragment(hook) ==
    << <<"Primary", hook.primary_ept_pre_alloc_pt>>,
       <<"Secondary", hook.primary_ept_pre_alloc_pt>> >>

\* the two dump_ept_entries calls after the lookup, in program order: the
\* hierarchy dumped and the table fragment of the hook handed to it
dump_ept_entries_calls(hook) ==
    << <<"Primary", hook.primary_ept_pre_alloc_pt>>,
       <<"Secondary", hook.secondary_ept_pre_alloc_pt>> >>

\* primary_ept.dump_ept_entries(gpa, hook.primary_ept_pre_alloc_pt)
dump_primary(c) ==
    LET v == vcpu[c]
        hook == shared_data.ept_hook_manager[v.hook + 1]
    IN
    /\ v.pc = "dump_primary"
    /\ vcpu' = [vcpu EXCEPT ![c] =
                  [v EXCEPT !.pc = "dump_secondary",
                            !.log = Append(@, <<"dump_ept_entries",
                                                dump_ept_entries_calls(hook)[1][1],
                                                v.guest_physical_address,
                                                dump_ept_entries_calls(hook)[1][2]>>)]]
    /\ UNCHANGED <<shared_data, scan, ssdt>>

\* secondary_ept.dump_ept_entries(gpa, hook.secondary_ept_pre_alloc_pt)
dump_secondary(c) ==
    LET v == vcpu[c]
        hook == shared_data.ept_hook_manager[v.hook + 1]
    IN
    /\ v.pc = "dump_secondary"
    /\ vcpu' = [vcpu EXCEPT ![c] =
                  [v EXCEPT !.pc = "int3",
                            !.log = Append(@, <<"dump_ept_entries",
                                                dump_ept_entries_calls(hook)[2][1],
                                                v.guest_physical_address,
                                                dump_ept_entries_calls(hook)[2][2]>>)]]
    /\ UNCHANGED <<shared_data, scan, ssdt>>

\* asm!("int3"): the breakpoint trap; the handler goes on once the debugger
\* lets it
int3(c) ==
    LET v == vcpu[c] IN
    /\ v.pc = "int3"
    /\ vcpu' = [vcpu EXCEPT ![c] =
                  [v EXCEPT !.pc = "handle_ept_misconfiguration_return",
                            !.log = Append(@, <<"int3">>)]]
    /\ UNCHANGED <<shared_data, scan, ssdt>>

\* return ExitType::ExitHypervisor
handle_ept_misconfiguration_return(c) ==
    LET v == vcpu[c] IN
    /\ v.pc = "handle_ept_misconfiguration_return"
    /\ vcpu' = [vcpu EXCEPT ![c] =
                  [v EXCEPT !.result = handle_ept_misconfiguration_result,
                            !.pc = "dispatch"]]
    /\ UNCHANGED <<shared_data, scan, ssdt>>

----------------------------------------------------------------------------
(* The guest and the VM-exit framework around the handlers *)

\* the root whose permissions a guest access is checked against: the cached
\* translations when there are any, else a walk from EPTP_FULL
EffectiveRoot(v) == IF v.tlb = NoCache THEN v.eptp ELSE v.tlb

\* permissions of a page under a root
RootPermissions(sd, root, page) ==
    IF root = sd.primary_eptp THEN sd.primary_ept[page]
    ELSE IF root = sd.secondary_eptp THEN sd.secondary_ept[page]
    ELSE {}

\* the page the guest is about to access and the permission that needs
AccessPage(v) == IF v.pc = "fetch" THEN v.instr.code ELSE v.instr.data

AccessNeeds(v) == IF v.pc = "fetch" THEN "X" ELSE "R"

AccessPermitted(v, sd) ==
    AccessNeeds(v) \in RootPermissions(sd, EffectiveRoot(v), AccessPage(v))

\* the instruction fetch succeeds and the instruction has a memory operand
GuestFetch(c) ==
    LET v == vcpu[c] IN
    /\ v.pc = "fetch"
    /\ v.instr.data # NoData
    /\ AccessPermitted(v, shared_data)
    /\ vcpu' = [vcpu EXCEPT ![c] =
                  [v EXCEPT !.pc = "data", !.tlb = EffectiveRoot(v)]]
    /\ UNCHANGED <<shared_data, scan, ssdt>>

\* the last access of the instruction succeeds: the instruction retires and
\* rip moves to the next one
GuestRetire(c) ==
    LET v == vcpu[c] IN
    /\ v.pc \in {"fetch", "data"}
    /\ v.pc = "fetch" => v.instr.data = NoData
    /\ AccessPermitted(v, shared_data)
    /\ \E i \in Instructions :
         vcpu' = [vcpu EXCEPT ![c] =
                    [v EXCEPT !.tlb = EffectiveRoot(v),
                              !.rip = v.rip + 1,
                              !.entry_rip = v.rip + 1,
                              !.retries = 0,
                              !.seen = {},
                              !.instr = IF v.rip + 1 < MaxInstr THEN i ELSE v.instr,
                              !.pc = IF v.rip + 1 < MaxInstr THEN "fetch" ELSE "stopped"]]
    /\ UNCHANGED <<shared_data, scan, ssdt>>

\* the access is not permitted: EPT-violation VM exit. The processor stores
\* the exit qualification and the faulting address and enters the handler
EptViolationExit(c) ==
    LET v == vcpu[c] IN
    /\ v.pc \in {"fetch", "data"}
    /\ ~AccessPermitted(v, shared_data)
    /\ v.n_exits < MaxExits
    /\ vcpu' = [vcpu EXCEPT ![c] =
                  [v EXCEPT !.pc = "handle_ept_violation",
                            !.instruction_fetch = (v.pc = "fetch"),
                            !.guest_physical_address = AccessPage(v),
                            !.entry_eptp = v.eptp,
                            !.entry_rip = v.rip,
                            !.n_exits = @ + 1,
                            !.retries = @ + 1,
                            !.seen = @ \cup {<<v.eptp, v.pc = "fetch">>}]]
    /\ UNCHANGED <<shared_data, scan, ssdt>>

\* the hierarchy entry for the address is malformed: EPT-misconfiguration
\* VM exit
EptMisconfigurationExit(c) ==
    LET v == vcpu[c] IN
    /\ v.pc \in {"fetch", "data"}
    /\ vcpu' = [vcpu EXCEPT ![c] =
                  [v EXCEPT !.pc = "handle_ept_misconfiguration",
                            !.guest_physical_address = AccessPage(v),
                            !.entry_eptp = v.eptp,
                            !.entry_rip = v.rip,
                            !.fatal = TRUE]]
    /\ UNCHANGED <<shared_data, scan, ssdt>>

\* the framework on ExitType::Continue: the guest is resumed at its rip
VmResume(c) ==
    LET v == vcpu[c] IN
    /\ v.pc = "dispatch"
    /\ v.result = "Continue"
    /\ vcpu' = [vcpu EXCEPT ![c] =
                  [v EXCEPT !.pc = "fetch",
                            !.result = "none",
                            !.entry_eptp = "none",
                            !.log = <<>>]]
    /\ UNCHANGED <<shared_data, scan, ssdt>>

\* the framework on ExitType::ExitHypervisor: the session ends
VmHalt(c) ==
    LET v == vcpu[c] IN
    /\ v.pc = "dispatch"
    /\ v.result = "ExitHypervisor"
    /\ vcpu' = [vcpu EXCEPT ![c] = [v EXCEPT !.pc = "halted"]]
    /\ UNCHANGED <<shared_data, scan, ssdt>>

----------------------------------------------------------------------------
(***************************************************************************)
(* SsdtFind::get_bytes_as_hex and SsdtFind::pattern_scan                   *)
(* (hypervisor/src/windows/ssdt/ssdt_find.rs)                              *)
(*                                                                         *)
(* A &str is a sequence of one-character strings, a byte a number in       *)
(* 0..255, Option<u8> is None or Some(b), Result is Ok(x) or Err(e).       *)
(***************************************************************************)

None == <<"None">>
Some(x) == <<"Some", x>>
Ok(x) == <<"Ok", x>>
Err(e) == <<"Err", e>>
Panic(message) == <<"panic", message>>

u8_MAX == 2 ^ 8 - 1

\* char::is_whitespace, restricted to ASCII
is_whitespace(ch) == ch \in {" ", "\t", "\n", "\r"}

\* str::split_whitespace: the maximal runs of non-whitespace characters
RECURSIVE split_whitespace_from(_, _)
split_whitespace_from(s, token) ==
    IF s = <<>>
    THEN IF token = <<>> THEN <<>> ELSE <<token>>
    ELSE IF is_whitespace(Head(s))
    THEN IF token = <<>>
         THEN split_whitespace_from(Tail(s), <<>>)
         ELSE <<token>> \o split_whitespace_from(Tail(s), <<>>)
    ELSE split_whitespace_from(Tail(s), Append(token, Head(s)))

split_whitespace(s) == split_whitespace_from(s, <<>>)

Digits == <<"0", "1", "2", "3", "4", "5", "6", "7", "8", "9">>
UpperLetters == <<"A", "B", "C", "D", "E", "F">>
LowerLetters == <<"a", "b", "c", "d", "e", "f">>

\* char::to_digit(radix) for radix <= 16: Some(value) or None
to_digit(ch, radix) ==
    LET value ==
            IF \E k \in DOMAIN Digits : Digits[k] = ch
            THEN (CHOOSE k \in DOMAIN Digits : Digits[k] = ch) - 1
            ELSE IF \E k \in DOMAIN UpperLetters : UpperLetters[k] = ch
            THEN (CHOOSE k \in DOMAIN UpperLetters : UpperLetters[k] = ch) + 9
            ELSE IF \E k \in DOMAIN LowerLetters : LowerLetters[k] = ch
            THEN (CHOOSE k \in DOMAIN LowerLetters : LowerLetters[k] = ch) + 9
            ELSE radix
    IN  IF value < radix THEN Some(value) ELSE None

\* the digit loop of u8::from_str_radix with a result that wraps modulo 2^8
RECURSIVE from_str_radix_digits_wrapping(_, _, _)
from_str_radix_digits_wrapping(digits, radix, result) ==
    IF digits = <<>> THEN Ok(result)
    ELSE LET d == to_digit(Head(digits), radix)
         IN  IF d = None THEN Err("InvalidDigit")
             ELSE from_str_radix_digits_wrapping(
                      Tail(digits), radix, (result * radix + d[2]) % (u8_MAX + 1))

\* the digit loop of u8::from_str_radix: checked multiply and add per digit
RECURSIVE from_str_radix_digits(_, _, _)
from_str_radix_digits(digits, radix, result) ==
    IF digits = <<>> THEN Ok(result)
    ELSE LET d == to_digit(Head(digits), radix)
         IN  IF d = None THEN Err("InvalidDigit")
             ELSE IF result * radix + d[2] > u8_MAX THEN Err("PosOverflow")
             ELSE from_str_radix_digits(Tail(digits), radix, result * radix + d[2])

\* u8::from_str_radix: an unsigned type takes an optional leading "+" and no
\* leading "-"; a sign alone, or no character at all, is an error
from_str_radix(src, radix) ==
    IF src = <<>> THEN Err("Empty")
    ELSE IF Head(src) \in {"+", "-"} /\ Tail(src) = <<>> THEN Err("InvalidDigit")
    ELSE IF Head(src) = "+" THEN from_str_radix_digits(Tail(src), radix, 0)
    ELSE from_str_radix_digits(src, radix, 0)

\* get_bytes_as_hex, lines 118-127: the loop over the tokens; the `?` operator
\* leaves the function with the error and drops pattern_bytes
RECURSIVE get_bytes_as_hex_loop(_, _)
get_bytes_as_hex_loop(tokens, pattern_bytes) ==
    IF tokens = <<>> THEN Ok(pattern_bytes)
    ELSE LET x == Head(tokens)
         IN  IF x = <<"?">>
             THEN get_bytes_as_hex_loop(Tail(tokens), Append(pattern_bytes, None))
             ELSE LET byte == from_str_radix(x, 16)
                  IN  IF byte[1] = "Err" THEN Err("HexParseError")
                      ELSE get_bytes_as_hex_loop(
                               Tail(tokens), Append(pattern_bytes, Some(byte[2])))

get_bytes_as_hex(pattern) ==
    get_bytes_as_hex_loop(split_whitespace(pattern), <<>>)

\* slice::windows(size): the overlapping windows in order; size 0 panics
windows(data, size) ==
    IF size = 0 THEN Panic("window size must be non-zero")
    ELSE Ok([i \in 1..(IF Len(data) >= size THEN Len(data) - size + 1 ELSE 0)
                |-> SubSeq(data, i, i + size - 1)])

\* lines 155-158: window.iter().zip(&pattern_bytes).all(map_or(true, ==))
window_matches(window, pattern_bytes) ==
    \A k \in 1..(IF Len(window) < Len(pattern_bytes)
                 THEN Len(window) ELSE Len(pattern_bytes)) :
        pattern_bytes[k] = None \/ window[k] = pattern_bytes[k][2]

\* Iterator::position: the zero-based index of the first item that matches
position(items, pattern_bytes) ==
    IF \E i \in DOMAIN items : window_matches(items[i], pattern_bytes)
    THEN Some((CHOOSE i \in DOMAIN items :
                  /\ window_matches(items[i], pattern_bytes)
                  /\ \A j \in 1..(i - 1) : ~window_matches(items[j], pattern_bytes))
              - 1)
    ELSE None

\* a call of pattern_scan(data, pattern) at its first statement
PatternScanCall(data, pattern) ==
    [pc |-> "get_bytes_as_hex", data |-> data, pattern |-> pattern,
     pattern_bytes |-> <<>>, searched |-> FALSE, result |-> None]

\* line 150: let pattern_bytes = Self::get_bytes_as_hex(pattern)?;
pattern_scan_get_bytes ==
    /\ scan.pc = "get_bytes_as_hex"
    /\ LET parsed == get_bytes_as_hex(scan.pattern)
       IN  scan' = IF parsed[1] = "Err"
                   THEN [scan EXCEPT !.pc = "done", !.result = parsed]
                   ELSE [scan EXCEPT !.pc = "windows", !.pattern_bytes = parsed[2]]
    /\ UNCHANGED <<vcpu, shared_data, ssdt>>

\* lines 154-161: data.windows(pattern_bytes.len()).position(...); Ok(offset)
pattern_scan_position ==
    /\ scan.pc = "windows"
    /\ LET items == windows(scan.data, Len(scan.pattern_bytes))
       IN  scan' = IF items[1] = "panic"
                   THEN [scan EXCEPT !.pc = "done", !.result = items]
                   ELSE [scan EXCEPT !.pc = "done", !.searched = TRUE,
                             !.result = Ok(position(items[2], scan.pattern_bytes))]
    /\ UNCHANGED <<vcpu, shared_data, ssdt>>

(***************************************************************************)
(* SsdtFind::find_ssdt (hypervisor/src/windows/ssdt/ssdt_find.rs)          *)
(*                                                                         *)
(* Memory is the kernel image, kernel_size bytes from kernel_base, and     *)
(* what lies behind it: nothing mapped, or bytes of one value.  Offsets    *)
(* are relative to kernel_base.                                            *)
(***************************************************************************)

\* pattern_scan as one call: the error of the conversion, the panic of
\* windows, or Ok of the position
pattern_scan(data, pattern) ==
    LET parsed == get_bytes_as_hex(pattern)
    IN  IF parsed[1] = "Err" THEN parsed
        ELSE LET items == windows(data, Len(parsed[2]))
             IN  IF items[1] = "panic" THEN items
                 ELSE Ok(position(items[2], parsed[2]))

\* line 54: "8B F8 C1 EF 07 83 E7 20 25 FF 0F 00 00"
ki_service_system_start_pattern ==
    <<"8", "B", " ",
      "F", "8", " ",
      "C", "1", " ",
      "E", "F", " ",
      "0", "7", " ",
      "8", "3", " ",
      "E", "7", " ",
      "2", "0", " ",
      "2", "5", " ",
      "F", "F", " ",
      "0", "F", " ",
      "0", "0", " ",
      "0", "0">>

\* line 55
signature_size == 13

\* the byte stored at an offset from kernel_base: Some(byte), or None where
\* nothing is mapped
MemoryAt(call, at) ==
    IF at < Len(call.image) THEN Some(call.image[at + 1]) ELSE call.beyond

\* i32 of four bytes in memory order (little endian, two's complement)
i32_from_le_bytes(b) ==
    b[1] + 256 * b[2] + 65536 * b[3]
        + 16777216 * (IF b[4] >= 128 THEN b[4] - 256 ELSE b[4])

\* a call of find_ssdt(kernel_base, kernel_size) at its first statement
FindSsdtCall(kernel_base, image, beyond, debug_assertions) ==
    [pc |-> "pattern_scan", kernel_base |-> kernel_base, image |-> image,
     beyond |-> beyond, debug_assertions |-> debug_assertions,
     offset |-> 0, relative_offset |-> 0, reads |-> {}, result |-> None]

\* the offsets position() has looked at: the windows up to the match, or all
scanned(image, found) ==
    IF Len(image) < signature_size THEN {}
    ELSE IF found = None THEN 0..(Len(image) - 1)
    ELSE 0..(found[2] + signature_size - 1)

\* lines 58-62: the slice over the image, pattern_scan(..)?.ok_or(PatternNotFound)?
find_ssdt_pattern_scan ==
    /\ ssdt.pc = "pattern_scan"
    /\ LET ntoskrnl_data == ssdt.image
           found == pattern_scan(ntoskrnl_data, ki_service_system_start_pattern)
       IN  ssdt' = IF found[1] # "Ok"
                   THEN [ssdt EXCEPT !.pc = "done", !.result = found]
                   ELSE IF found[2] = None
                   THEN [ssdt EXCEPT !.pc = "done",
                             !.reads = scanned(ntoskrnl_data, None),
                             !.result = Err("PatternNotFound")]
                   ELSE [ssdt EXCEPT !.pc = "relative_offset",
                             !.reads = scanned(ntoskrnl_data, found[2]),
                             !.offset = found[2][2]]
    /\ UNCHANGED <<vcpu, shared_data, scan>>

\* lines 66-79: the offset of the displacement of the second lea
relative_offset_at(offset) ==
    LET ki_service_system_start == offset
        lea_r10_address == ki_service_system_start + signature_size
        lea_r11_address == lea_r10_address + 7
    IN  lea_r11_address + 3

\* line 79: *(lea_r11_address.add(3) as *const i32), a read of four bytes
\* through a raw pointer with no check against kernel_size.  A build with
\* debug assertions panics on an address that is not a multiple of 4; a read
\* that leaves the image returns what is there, or faults.
find_ssdt_relative_offset ==
    /\ ssdt.pc = "relative_offset"
    /\ LET at == relative_offset_at(ssdt.offset)
           bytes == [k \in 1..4 |-> MemoryAt(ssdt, at + k - 1)]
       IN  ssdt' =
               IF ssdt.debug_assertions /\ (ssdt.kernel_base + at) % 4 # 0
               THEN [ssdt EXCEPT !.pc = "done",
                         !.result = Panic("misaligned pointer dereference")]
               ELSE IF \E k \in 1..4 : bytes[k] = None
               THEN [ssdt EXCEPT !.pc = "done",
                         !.reads = @ \cup (at..(at + 3)),
                         !.result = <<"fault", "page fault">>]
               ELSE [ssdt EXCEPT !.pc = "return",
                         !.reads = @ \cup (at..(at + 3)),
                         !.relative_offset =
                             i32_from_le_bytes([k \in 1..4 |-> bytes[k][2]])]
    /\ UNCHANGED <<vcpu, shared_data, scan>>

\* lines 84-94: the two table addresses from the displacement
ke_service_descriptor_table_shadow(kernel_base, offset, relative_offset) ==
    LET lea_r11_address == kernel_base + offset + signature_size + 7
    IN  lea_r11_address + 7 + relative_offset

\* lines 88-102
find_ssdt_return ==
    /\ ssdt.pc = "return"
    /\ LET shadow == ke_service_descriptor_table_shadow(
                         ssdt.kernel_base, ssdt.offset, ssdt.relative_offset)
           nt_table == shadow
           win32k_table == shadow + 32
       IN  ssdt' = [ssdt EXCEPT !.pc = "done",
                        !.result = Ok([nt_table |-> nt_table,
                                       win32k_table |-> win32k_table])]
    /\ UNCHANGED <<vcpu, shared_data, scan>>

----------------------------------------------------------------------------
(* Specifications *)

Roots == {"primary_root", "secondary_root"}

\* one logical processor, from the start of the guest
Init ==
    /\ scan = NoCall
    /\ ssdt = NoCall
    /\ \E n \in 0..MaxHooks : shared_data = SharedData(n)
    /\ vcpu \in [{0} -> {InitialVcpu(root, i, 0, 0) :
                           root \in Roots, i \in Instructions}]

\* two logical processors, each with one instruction and one exit to go
InitSmp ==
    /\ scan = NoCall
    /\ ssdt = NoCall
    /\ \E n \in {0, MaxHooks} : shared_data = SharedData(n)
    /\ vcpu \in [Cpus -> {InitialVcpu(root, i, MaxInstr - 1, MaxExits - 1) :
                            root \in Roots, i \in Instructions}]

Next ==
    \/ \E c \in DOMAIN vcpu : GuestFetch(c)
    \/ \E c \in DOMAIN vcpu : GuestRetire(c)
    \/ \E c \in DOMAIN vcpu : EptViolationExit(c)
    \/ \E c \in DOMAIN vcpu : EptMisconfigurationExit(c)
    \/ \E c \in DOMAIN vcpu : handle_ept_violation(c)
    \/ \E c \in DOMAIN vcpu : match_arm(c)
    \/ \E c \in DOMAIN vcpu : switch_eptp(c)
    \/ \E c \in DOMAIN vcpu : handle_ept_violation_return(c)
    \/ \E c \in DOMAIN vcpu : handle_ept_misconfiguration(c)
    \/ \E c \in DOMAIN vcpu : dump_lookup(c)
    \/ \E c \in DOMAIN vcpu : dump_primary(c)
    \/ \E c \in DOMAIN vcpu : dump_secondary(c)
    \/ \E c \in DOMAIN vcpu : int3(c)
    \/ \E c \in DOMAIN vcpu : handle_ept_misconfiguration_return(c)
    \/ \E c \in DOMAIN vcpu : VmResume(c)
    \/ \E c \in DOMAIN vcpu : VmHalt(c)

Spec == Init /\ [][Next]_vars

SpecSmp == InitSmp /\ [][Next]_vars

\* strings of at most n items of the set S
SeqsUpTo(S, n) == UNION {[1..k -> S] : k \in 0..n}

\* a hexadecimal letter, a digit, the wildcard, a separator, a sign and a
\* character that is none of these
PatternChars == {"A", "0", "?", " ", "+", "G"}

\* the byte values the tokens over PatternChars can denote within a block
DataBytes == {0, 10}

\* the EPT engine at rest: the scanner shares no state with it
EptIdle ==
    /\ shared_data = SharedData(0)
    /\ vcpu = [c \in {0} |-> InitialVcpu("primary_root",
                                         [code |-> PlainPage, data |-> NoData], 0, 0)]

\* one call of pattern_scan on every data block and pattern string in the bounds
InitScan ==
    /\ EptIdle
    /\ ssdt = NoCall
    /\ \E data \in SeqsUpTo(DataBytes, MaxDataLen),
          pattern \in SeqsUpTo(PatternChars, MaxPatternLen) :
           scan = PatternScanCall(data, pattern)

NextScan ==
    \/ pattern_scan_get_bytes
    \/ pattern_scan_position

SpecScan == InitScan /\ [][NextScan]_vars

\* the 13 bytes of the KiSystemServiceStart signature
Signature ==
    LET pattern_bytes == get_bytes_as_hex(ki_service_system_start_pattern)[2]
    IN  [k \in DOMAIN pattern_bytes |-> pattern_bytes[k][2]]

\* the signature with its last byte changed: no occurrence
BrokenSignature == [Signature EXCEPT ![Len(Signature)] = 1]

\* displacements of the second lea, in memory order: 0x008F368E and -16
RelativeOffsets == {<<142, 54, 143, 0>>, <<240, 255, 255, 255>>}

\* what follows the signature in the kernel: lea r10, lea r11 with its
\* displacement, a second occurrence of the signature, and padding
Following(rel) ==
    <<76, 141, 21, 85, 94, 157, 0>> \o <<76, 141, 29>> \o rel
        \o Signature \o [k \in 1..MaxTail |-> 144]

\* kernel images: padding, the signature or its broken copy, and a piece of
\* what follows, cut anywhere
KernelImages ==
    {[k \in 1..pad |-> 144] \o body \o SubSeq(Following(rel), 1, tail) :
        pad \in 0..MaxPad,
        body \in {Signature, BrokenSignature},
        rel \in RelativeOffsets,
        tail \in 0..MaxTail}

\* the kernel is loaded at a page boundary
PageSize == 2 ^ 12

\* one call of find_ssdt on every kernel image in the bounds
InitSsdt ==
    /\ EptIdle
    /\ scan = NoCall
    /\ \E image \in KernelImages, beyond \in {None, Some(0), Some(255)},
          debug_assertions \in BOOLEAN :
           ssdt = FindSsdtCall(PageSize, image, beyond, debug_assertions)

NextSsdt ==
    \/ find_ssdt_pattern_scan
    \/ find_ssdt_relative_offset
    \/ find_ssdt_return

SpecSsdt == InitSsdt /\ [][NextSsdt]_vars

----------------------------------------------------------------------------
(* Properties *)

GuestPcs == {"fetch", "data", "stopped"}

SwitchingPcs == {"handle_ept_violation", "match_arm", "switch_eptp"}

\* handle_ept_violation has returned and the framework has not acted yet
ViolationHandled(v) == v.pc = "dispatch" /\ ~v.fatal

EventsOf(log, kind) == SelectSeq(log, LAMBDA e : e[1] = kind)

\* C1: every handled EPT violation performs exactly one view switch (one
\* switch_eptp call, one EPTP write), to Primary when instruction_fetch is
\* false and to Secondary when it is true; while the handler runs there is
\* never a second switch
C1_ExactlyOneSwitch ==
    \A c \in DOMAIN vcpu :
        LET v == vcpu[c] IN
        /\ Len(EventsOf(v.log, "switch_eptp")) <= 1
        /\ ViolationHandled(v) =>
             /\ EventsOf(v.log, "switch_eptp") =
                  << <<"switch_eptp",
                       IF v.instruction_fetch THEN "Secondary" ELSE "Primary">> >>
             /\ Len(EventsOf(v.log, "vmwrite")) = 1

\* an instruction-fetch violation was handled with one switch, to Secondary
C1_Witness ==
    \E c \in DOMAIN vcpu :
        /\ ViolationHandled(vcpu[c])
        /\ vcpu[c].instruction_fetch
        /\ EventsOf(vcpu[c].log, "switch_eptp") = << <<"switch_eptp", "Secondary">> >>

\* C2: two processors that took an EPT violation with the same
\* instruction_fetch flag have the same EPTP after their handlers returned,
\* whatever view each had when its exit was taken
C2_Determinism ==
    \A c1, c2 \in DOMAIN vcpu :
        (/\ ViolationHandled(vcpu[c1])
         /\ ViolationHandled(vcpu[c2])
         /\ vcpu[c1].instruction_fetch = vcpu[c2].instruction_fetch)
        => vcpu[c1].eptp = vcpu[c2].eptp

\* two processors entered with different views and the same flag, and both
\* handlers have returned
C2_Witness ==
    \E c1, c2 \in DOMAIN vcpu :
        /\ ViolationHandled(vcpu[c1])
        /\ ViolationHandled(vcpu[c2])
        /\ vcpu[c1].instruction_fetch = vcpu[c2].instruction_fetch
        /\ vcpu[c1].entry_eptp = shared_data.primary_eptp
        /\ vcpu[c2].entry_eptp = shared_data.secondary_eptp

\* C3: outside a running switch the EPTP writes and the all-contexts
\* invalidations both number the EPT-violation exits taken; a switch to the
\* view that was already active still writes and invalidates, and leaves
\* that view active
C3_ReentryNotSkipped ==
    \A c \in DOMAIN vcpu :
        LET v == vcpu[c] IN
        /\ v.pc \notin SwitchingPcs =>
             /\ v.n_vmwrite = v.n_exits
             /\ v.n_invept = v.n_exits
        /\ (ViolationHandled(v) /\ v.entry_eptp = v.eptp) =>
             /\ Len(EventsOf(v.log, "vmwrite")) = 1
             /\ Len(EventsOf(v.log, "invept")) = 1

\* the second handled violation switched to the view that was active
C3_Witness ==
    \E c \in DOMAIN vcpu :
        /\ ViolationHandled(vcpu[c])
        /\ vcpu[c].entry_eptp = vcpu[c].eptp
        /\ vcpu[c].n_exits = 2
        /\ vcpu[c].n_vmwrite = 2
        /\ vcpu[c].n_invept = 2

DumpPcs == {"dump_primary", "dump_secondary", "int3",
            "handle_ept_misconfiguration_return"}

\* C4: with cursor current_hook_index = N over N installed hooks, the lookup
\* of the dump borrows record N - 1 when N > 0, and when N = 0 it ends with
\* the missing-record error FailedToGetCurrentHookIndex and with nothing else
C4_CursorInvariant ==
    \A c \in DOMAIN vcpu :
        LET v == vcpu[c] IN
        /\ v.pc \in DumpPcs =>
             /\ shared_data.current_hook_index > 0
             /\ v.hook = shared_data.current_hook_index - 1
        /\ v.pc = "panicked" =>
             /\ shared_data.current_hook_index = 0
             /\ v.panic = "FailedToGetCurrentHookIndex"

\* C5: once handle_ept_misconfiguration has been invoked on a processor, no
\* ExitType::Continue is produced there and its guest does not run again;
\* what the handler returns is ExitHypervisor
C5_FatalIrreversible ==
    \A c \in DOMAIN vcpu :
        LET v == vcpu[c] IN
        v.fatal =>
            /\ v.result # "Continue"
            /\ v.pc \notin GuestPcs
            /\ v.pc \in {"dispatch", "halted"} => v.result = "ExitHypervisor"

\* a misconfiguration taken under the Secondary view ended in the halt
C5_Witness ==
    \E c \in DOMAIN vcpu :
        /\ vcpu[c].fatal
        /\ vcpu[c].pc = "halted"
        /\ vcpu[c].result = "ExitHypervisor"
        /\ vcpu[c].entry_eptp = shared_data.secondary_eptp

\* C6: handle_ept_violation returns ExitType::Continue whatever the flag and
\* the view at entry, and the guest rip is the one the exit was taken at
C6_ContinueSameRip ==
    \A c \in DOMAIN vcpu :
        LET v == vcpu[c] IN
        /\ v.rip = v.entry_rip
        /\ ViolationHandled(v) => v.result = "Continue"

\* an instruction-fetch violation taken under Secondary returned Continue
\* with rip where it was
C6_Witness ==
    \E c \in DOMAIN vcpu :
        /\ ViolationHandled(vcpu[c])
        /\ vcpu[c].instruction_fetch
        /\ vcpu[c].entry_eptp = shared_data.secondary_eptp
        /\ vcpu[c].result = "Continue"
        /\ vcpu[c].rip = vcpu[c].entry_rip

\* C7: every invalidation directly follows an EPTP write and runs with the
\* value just written in force; a write not yet followed by its
\* invalidation exists only inside switch_eptp, never while the guest runs
\* or after the handler returned
C7_WriteThenInvalidate ==
    \A c \in DOMAIN vcpu :
        LET v == vcpu[c] IN
        /\ \A j \in 1..Len(v.log) :
             v.log[j][1] = "invept" =>
                /\ j > 1
                /\ v.log[j - 1][1] = "vmwrite"
                /\ v.log[j][2] = v.log[j - 1][2]
        /\ v.n_invept <= v.n_vmwrite
        /\ v.n_vmwrite <= v.n_invept + 1
        /\ v.n_vmwrite # v.n_invept => v.pc = "switch_eptp"
        /\ v.pc \in GuestPcs \cup {"dispatch"} => v.n_vmwrite = v.n_invept

\* a switch that changed the register: the write, then the invalidation
\* under the new value
C7_Witness ==
    \E c \in DOMAIN vcpu :
        LET v == vcpu[c] IN
        /\ ViolationHandled(v)
        /\ v.entry_eptp # v.eptp
        /\ v.log = << <<"switch_eptp", "Secondary">>,
                      <<"vmwrite", shared_data.secondary_eptp>>,
                      <<"invept", shared_data.secondary_eptp>> >>

\* the page has a hook record: read/write-only in Primary, execute-only in
\* Secondary
Hooked(page) ==
    /\ shared_data.primary_ept[page] = {"R", "W"}
    /\ shared_data.secondary_ept[page] = {"X"}

\* the guest instruction has exactly one access to a hooked page and no
\* access to an unmapped page
SingleHookedAccess(i) ==
    /\ UnmappedPage \notin {i.code, i.data}
    /\ Hooked(i.code) # (i.data # NoData /\ Hooked(i.data))

C9_NoUnboundedRetry ==
    \A c \in DOMAIN vcpu :
        LET v == vcpu[c] IN
        UnmappedPage \notin {v.instr.code, v.instr.data} =>
            v.retries = Cardinality(v.seen)

\* C10: the EPTP register always holds one of the two stored roots, which
\* differ, and after a handled violation it holds the root of the view the
\* violation selects
C10_OneViewActive ==
    \A c \in DOMAIN vcpu :
        LET v == vcpu[c] IN
        /\ shared_data.primary_eptp # shared_data.secondary_eptp
        /\ v.eptp \in {shared_data.primary_eptp, shared_data.secondary_eptp}
        /\ ViolationHandled(v) =>
             v.eptp = IF v.instruction_fetch THEN shared_data.secondary_eptp
                      ELSE shared_data.primary_eptp

\* a violation taken under Primary left the Secondary root in the register
C10_Witness ==
    \E c \in DOMAIN vcpu :
        /\ ViolationHandled(vcpu[c])
        /\ vcpu[c].entry_eptp = shared_data.primary_eptp
        /\ vcpu[c].eptp = shared_data.secondary_eptp

\* C11: only a step of switch_eptp changes a processor's EPTP register or
\* issues an invalidation: every other step, those of
\* handle_ept_misconfiguration and of the dump included, leaves the
\* register, the write count and the invalidation count as they were
C11_OnlySwitchWritesEptp ==
    [][\A c \in DOMAIN vcpu :
         vcpu[c].pc # "switch_eptp" =>
            /\ vcpu'[c].eptp = vcpu[c].eptp
            /\ vcpu'[c].n_vmwrite = vcpu[c].n_vmwrite
            /\ vcpu'[c].n_invept = vcpu[c].n_invept]_vars

\* a misconfiguration taken under Secondary, after one handled violation,
\* was dumped and halted with Secondary still in the register
C11_Witness ==
    \E c \in DOMAIN vcpu :
        /\ vcpu[c].pc = "halted"
        /\ Len(EventsOf(vcpu[c].log, "dump_ept_entries")) = 2
        /\ vcpu[c].n_exits = 1
        /\ vcpu[c].entry_eptp = shared_data.secondary_eptp
        /\ vcpu[c].eptp = shared_data.secondary_eptp

ViolationHandlerPcs ==
    {"handle_ept_violation", "match_arm", "switch_eptp",
     "handle_ept_violation_return"}

\* C12: no step changes shared_data (stored roots, both hierarchies, hook
\* registry, cursor), the cursor-minus-one lookup of the dump included; the
\* steps of handle_ept_violation and switch_eptp change, of the trapping
\* processor, nothing of the guest (rip, the instruction at rip) nor the
\* exit information
C12_FrameEffect ==
    [][/\ shared_data' = shared_data
       /\ \A c \in DOMAIN vcpu :
            vcpu[c].pc \in ViolationHandlerPcs =>
               /\ vcpu'[c].rip = vcpu[c].rip
               /\ vcpu'[c].instr = vcpu[c].instr
               /\ vcpu'[c].guest_physical_address = vcpu[c].guest_physical_address
               /\ vcpu'[c].instruction_fetch = vcpu[c].instruction_fetch]_vars

\* a violation was handled with a view switch and a later misconfiguration
\* was dumped from the record at cursor - 1; the registry holds what the
\* bring-up left
C12_Witness ==
    \E c \in DOMAIN vcpu :
        /\ vcpu[c].pc = "int3"
        /\ vcpu[c].n_vmwrite = 1
        /\ vcpu[c].hook = MaxHooks - 1
        /\ shared_data = SharedData(MaxHooks)

\* C13: with two processors handling violations in any interleaving, a step
\* that changes one processor's state leaves the other processor's EPTP
\* register as it was, and each processor whose handler has returned holds
\* the root its own instruction_fetch flag selects
C13_PerProcessorIndependence ==
    /\ [](\A c \in DOMAIN vcpu :
            ViolationHandled(vcpu[c]) =>
               vcpu[c].eptp = IF vcpu[c].instruction_fetch
                              THEN shared_data.secondary_eptp
                              ELSE shared_data.primary_eptp)
    /\ [][\A c1, c2 \in DOMAIN vcpu :
            (c1 # c2 /\ vcpu'[c1] # vcpu[c1]) =>
               vcpu'[c2].eptp = vcpu[c2].eptp]_vars

\* both handlers have returned after switching in opposite directions:
\* processor 0 from Primary to Secondary, processor 1 from Secondary to
\* Primary
C13_Witness ==
    /\ DOMAIN vcpu = Cpus
    /\ ViolationHandled(vcpu[0])
    /\ ViolationHandled(vcpu[1])
    /\ vcpu[0].instruction_fetch /\ ~vcpu[1].instruction_fetch
    /\ vcpu[0].entry_eptp = shared_data.primary_eptp
    /\ vcpu[0].eptp = shared_data.secondary_eptp
    /\ vcpu[1].entry_eptp = shared_data.secondary_eptp
    /\ vcpu[1].eptp = shared_data.primary_eptp

\* what the misconfiguration handler has logged once k of its three steps
\* (Primary dump, Secondary dump, breakpoint) are done, for the faulting
\* address gpa and the hook record at Rust index h
FatalPathLog(gpa, h, k) ==
    SubSeq(<< <<"dump_ept_entries", "Primary", gpa, <<"primary_pt", h>> >>,
              <<"dump_ept_entries", "Secondary", gpa, <<"secondary_pt", h>> >>,
              <<"int3">> >>, 1, k)

\* C14: on a misconfiguration exit with a hook installed the handler dumps
\* Primary, then Secondary, both for the faulting address of the exit and
\* with the fragments of the record at cursor - 1 (primary_ept_pre_alloc_pt,
\* then secondary_ept_pre_alloc_pt); the breakpoint comes after both dumps
\* and the ExitHypervisor result after the breakpoint
C14_FatalPathOrder ==
    \A c \in DOMAIN vcpu :
        LET v == vcpu[c]
            h == shared_data.current_hook_index - 1
            done == CASE v.pc = "dump_primary" -> 0
                      [] v.pc = "dump_secondary" -> 1
                      [] v.pc = "int3" -> 2
                      [] OTHER -> 3
        IN
        (v.fatal /\ v.pc \in DumpPcs \cup {"dispatch", "halted"}) =>
            /\ shared_data.current_hook_index > 0
            /\ v.guest_physical_address \in {v.instr.code, v.instr.data}
            /\ v.log = FatalPathLog(v.guest_physical_address, h, done)
            /\ v.result = "ExitHypervisor" => done = 3

\* the handler returned ExitHypervisor for a misconfiguration at the hooked
\* page with both dumps and the breakpoint behind it
C14_Witness ==
    \E c \in DOMAIN vcpu :
        /\ vcpu[c].pc = "dispatch"
        /\ vcpu[c].result = "ExitHypervisor"
        /\ vcpu[c].guest_physical_address = HookedPage
        /\ vcpu[c].log = FatalPathLog(HookedPage, MaxHooks - 1, 3)


----------------------------------------------------------------------------
(* Properties of pattern_scan and get_bytes_as_hex *)

\* the pattern, as parsed, matches the data at the zero-based start index i
MatchAt(data, pattern_bytes, i) ==
    /\ i + Len(pattern_bytes) <= Len(data)
    /\ \A j \in 0..(Len(pattern_bytes) - 1) :
           pattern_bytes[j + 1] = None \/ pattern_bytes[j + 1] = Some(data[i + j + 1])

MatchIndices(data, pattern_bytes) ==
    {i \in 0..Len(data) : MatchAt(data, pattern_bytes, i)}

\* C15: pattern_scan returns Ok(Some(i)) exactly when i is the smallest start
\* index at which every pattern position is the wildcard or equals the data
\* byte, and Ok(None) exactly when there is no such index.
C15_FirstMatch ==
    (scan.pc = "done" /\ get_bytes_as_hex(scan.pattern)[1] = "Ok") =>
        LET pattern_bytes == get_bytes_as_hex(scan.pattern)[2]
            indices == MatchIndices(scan.data, pattern_bytes)
        IN  /\ \A i \in 0..Len(scan.data) :
                   scan.result = Ok(Some(i)) <=>
                       (i \in indices /\ \A k \in indices : i <= k)
            /\ scan.result = Ok(None) <=> indices = {}

\* C16: every call of pattern_scan finishes with Ok(Some(index)), Ok(None) or
\* Err(HypervisorError), whatever the data block and the pattern string.
C16_Total ==
    scan.pc = "done" =>
        \/ scan.result = Ok(None)
        \/ \E i \in 0..Len(scan.data) : scan.result = Ok(Some(i))
        \/ scan.result = Err("HexParseError")


\* a token of one or more hexadecimal digits
HexToken(token) ==
    /\ token # <<>>
    /\ \A k \in DOMAIN token : to_digit(token[k], 16) # None

\* the number a token of hexadecimal digits denotes
RECURSIVE HexValue(_)
HexValue(token) ==
    IF token = <<>> THEN 0
    ELSE HexValue(SubSeq(token, 1, Len(token) - 1)) * 16
             + to_digit(token[Len(token)], 16)[2]

\* the element the claim gives a token: the wildcard, the byte, or no element
TokenElement(token) ==
    IF token = <<"?">> THEN None
    ELSE IF HexToken(token) /\ HexValue(token) <= 255 THEN Some(HexValue(token))
    ELSE <<"invalid">>

\* the same, with the optional leading "+" that u8::from_str_radix accepts
SignedTokenElement(token) ==
    IF Len(token) > 1 /\ Head(token) = "+" /\ Tail(token) # <<"?">>
    THEN TokenElement(Tail(token))
    ELSE TokenElement(token)

\* what the call shows of get_bytes_as_hex, against the elements expected of
\* the tokens: Ok with one element per token in order, or HexParseError with
\* no vector and no search
ParsedAs(elements) ==
    IF \E k \in DOMAIN elements : elements[k] = <<"invalid">>
    THEN /\ scan.pc = "done"
         /\ scan.result = Err("HexParseError")
         /\ scan.pattern_bytes = <<>>
         /\ ~scan.searched
    ELSE /\ scan.pattern_bytes = elements
         /\ scan.result # Err("HexParseError")

\* C17 as stated: one element per whitespace-separated token, "?" the
\* wildcard, a hexadecimal token of value at most 0xFF its byte, and every
\* other token HexParseError with no partial vector and no search.
C17_Original ==
    scan.pc \in {"windows", "done"} =>
        LET tokens == split_whitespace(scan.pattern)
        IN  ParsedAs([k \in DOMAIN tokens |-> TokenElement(tokens[k])])

\* C17, amended: as C17, where a token of hexadecimal digits may carry one
\* leading "+" and still denotes its byte.
C17_TokensToBytes ==
    scan.pc \in {"windows", "done"} =>
        LET tokens == split_whitespace(scan.pattern)
        IN  ParsedAs([k \in DOMAIN tokens |-> SignedTokenElement(tokens[k])])

\* a pattern of a wildcard and a signed hexadecimal token has been parsed
C17_Witness ==
    /\ scan.pc = "windows"
    /\ split_whitespace(scan.pattern) = << <<"?">>, <<"+", "A">> >>
    /\ scan.pattern_bytes = <<None, Some(10)>>


----------------------------------------------------------------------------
(* Properties of find_ssdt *)

\* the offsets at which the signature occurs in the kernel image
Occurrences(image) ==
    {o \in 0..Len(image) :
        /\ o + Len(Signature) <= Len(image)
        /\ \A j \in 1..Len(Signature) : image[o + j] = Signature[j]}

FirstOccurrence(image) ==
    CHOOSE o \in Occurrences(image) : \A k \in Occurrences(image) : o <= k

\* the signed 32-bit value stored at an offset from kernel_base, if four bytes
\* are stored there
Stored_i32(call, at) ==
    IF \E k \in 0..3 : MemoryAt(call, at + k) = None THEN None
    ELSE LET b == [k \in 1..4 |-> MemoryAt(call, at + k - 1)[2]]
         IN  Some(b[1] + b[2] * 2 ^ 8 + b[3] * 2 ^ 16
                      + (IF b[4] < 2 ^ 7 THEN b[4] ELSE b[4] - 2 ^ 8) * 2 ^ 24)

\* C18: find_ssdt returns Err(PatternNotFound) when the signature does not
\* occur in the kernel image; when its first occurrence is at offset o, it
\* returns nt_table = kernel_base + o + 27 + rel32 for the signed 32-bit
\* value rel32 stored at kernel_base + o + 23, and win32k_table = nt_table +
\* 0x20 bytes.
C18_TableAddresses ==
    ssdt.pc = "done" =>
        IF Occurrences(ssdt.image) = {}
        THEN ssdt.result = Err("PatternNotFound")
        ELSE LET o == FirstOccurrence(ssdt.image)
                 rel32 == Stored_i32(ssdt, o + 23)
             IN  /\ rel32 # None
                 /\ ssdt.result =
                        Ok([nt_table |-> ssdt.kernel_base + o + 27 + rel32[2],
                            win32k_table |->
                                ssdt.kernel_base + o + 27 + rel32[2] + 32])

\* C19: every byte find_ssdt reads lies inside [kernel_base, kernel_base +
\* kernel_size), the four bytes of the displacement at match offset + 23
\* included.
C19_ReadsInsideImage ==
    \A at \in ssdt.reads : 0 <= at /\ at < Len(ssdt.image)

====
